---- MODULE Spec2Model ----
(***************************************************************************)
(* Model of src/app.py: a FastAPI service that serves a text-to-image and  *)
(* an image-to-image diffusion pipeline from one asyncio event loop.       *)
(*                                                                         *)
(* Every handler is an `async def` coroutine run on the single event-loop  *)
(* thread.  A coroutine runs until it suspends at an await that really     *)
(* blocks (a contended lock, file.read()); the pipeline calls are plain    *)
(* synchronous calls.  loop_task holds the coroutine that currently        *)
(* occupies the event-loop thread.  A pipeline invocation is modelled with *)
(* its entry and its exit as two separate steps, so that "inside a         *)
(* pipeline invocation" is an observable state.                            *)
(***************************************************************************)
EXTENDS Integers, Sequences, FiniteSets, TLC

\* ---------------------------------------------------------------- bounds
MaxReqs == 2      \* requests in flight over a run
MaxN == 2         \* largest n of a /v1/images/generations request
NumUuids == 2     \* how many distinct values uuid4() can draw from

None == "None"
Reqs == 1..MaxReqs

UuidNames == <<"u1", "u2", "u3", "u4", "u5", "u6">>
UUIDs == {UuidNames[i] : i \in 1..NumUuids}

\* ---------------------------------------------------------------- files
IMAGE_DIR == "uploaded_images"
OUTPUT_DIR == "output_images"
Dirs == {IMAGE_DIR, OUTPUT_DIR}

\* The files the service can create: <directory>/<uuid>.png, relative to the
\* working directory.  A path is the sequence of its components; the ".png"
\* suffix both writers and the reader append to the last component is implicit.
Paths == {<<d, u>> : d \in Dirs, u \in UUIDs}

\* Contents of a file.  A PNG file carries a picture (px) in a colour mode.
PNG(px, mode) == [fmt |-> "PNG", px |-> px, mode |-> mode]
NoFile == [fmt |-> "absent", px |-> <<"none", 0, 0>>, mode |-> "none"]
Junk == [fmt |-> "raw", px |-> <<"junk", 0, 0>>, mode |-> "none"]

\* Bodies a client may send to /upload: two pictures and a non-image.
UploadBytes == {PNG(<<"up", 1, 0>>, "RGB"), PNG(<<"up", 2, 0>>, "RGBA"), Junk}

\* PIL: Image.open(path) succeeds on image data only, and gives the picture in
\* the file's own mode; .convert("RGB") changes the mode; image.save writes PNG.
Decodable(bytes) == bytes.fmt = "PNG"
ImageOpen(bytes) == [px |-> bytes.px, mode |-> bytes.mode]
ConvertRGB(image) == [image EXCEPT !.mode = "RGB"]
EncodePNG(image) == PNG(image.px, image.mode)

\* os.path.normpath-like resolution the operating system applies to a relative
\* path: ".." removes the component before it.
RECURSIVE Resolve(_, _)
Resolve(path, acc) ==
    IF path = <<>> THEN acc
    ELSE IF Head(path) = ".."
         THEN Resolve(Tail(path), IF acc = <<>> THEN <<>> ELSE SubSeq(acc, 1, Len(acc) - 1))
         ELSE Resolve(Tail(path), Append(acc, Head(path)))

\* os.path.join(IMAGE_DIR, f"{file_id}.png"), a file_id being the sequence of
\* the "/"-separated components of the string the client sent.
UploadPath(file_id) == <<IMAGE_DIR>> \o file_id

\* output_dir / f"{file_id}.png"
OutputPath(file_id) == <<OUTPUT_DIR, file_id>>

\* file_id strings a client may send to /img2img: a bare token, or a relative
\* path that leaves the upload directory.
FileIds == {<<u>> : u \in UUIDs} \cup {<<"..", OUTPUT_DIR, u>> : u \in UUIDs}

\* ---------------------------------------------------------------- requests
Endpoints == {"txt2img", "upload", "img2img", "generations", "health"}

Requests ==
    [endpoint : {"txt2img", "health"}]
    \cup [endpoint : {"upload"}, bytes : UploadBytes]
    \cup [endpoint : {"img2img"}, file_id : FileIds]
    \cup [endpoint : {"generations"}, n : {1, MaxN}, response_format : {"url", "b64_json"}]

\* The requests that differ in how they use the gate and the event loop: the
\* response format, the number of images, a path outside the upload directory
\* and a second uploaded picture do not bear on either.
GateRequests ==
    {body \in Requests :
        /\ body.endpoint = "generations" => body.n = 1 /\ body.response_format = "url"
        /\ body.endpoint = "img2img" => Len(body.file_id) = 1
        /\ body.endpoint = "upload" => body.bytes.mode # "RGB"}

NoReq == [endpoint |-> None]
NoResp == [status |-> 0]
NoCall == [pipe |-> None]

VARIABLES
    ENABLE_TXT2IMG,     \* module constant read from the environment
    ENABLE_IMG2IMG,     \* module constant read from the environment
    device,             \* "cuda" or "cpu", chosen at import
    txt2img_pipeline,   \* None or the loaded pipeline
    img2img_pipeline,   \* None or the loaded pipeline
    phase,              \* "startup", "serving" or "failed"
    gpu_lock,           \* asyncio.Lock._locked of the module-level lock
    holders,            \* requests inside the body of `async with gpu_lock`
    fresh_locks,        \* requests inside `async with asyncio.Lock()` of their own
    loop_task,          \* the coroutines occupying the event-loop thread
    in_pipeline,        \* requests between entry and exit of a pipeline call
    pc,                 \* where each request's coroutine stands
    req,                \* each request's body
    resp,               \* each request's response
    locals,             \* each handler's local variables
    fs,                 \* the files on disk
    writes,             \* how often each path was opened for writing
    issued,             \* values uuid4() has returned
    call,               \* the pipeline invocation each request made
    acquired            \* requests that ever acquired gpu_lock

config == <<ENABLE_TXT2IMG, ENABLE_IMG2IMG, device>>
pipelines == <<txt2img_pipeline, img2img_pipeline>>
locks == <<gpu_lock, holders, fresh_locks, acquired>>
stores == <<fs, writes>>
vars == <<ENABLE_TXT2IMG, ENABLE_IMG2IMG, device, txt2img_pipeline, img2img_pipeline,
          phase, gpu_lock, holders, fresh_locks, loop_task, in_pipeline, pc, req, resp,
          locals, fs, writes, issued, call, acquired>>

NoImage == [px |-> <<"none", 0, 0>>, mode |-> "none"]
NoLocals == [file_uuid |-> None, pil_image |-> NoImage, images |-> <<>>, id |-> None,
             responses |-> <<>>]

Init ==
    /\ ENABLE_TXT2IMG \in BOOLEAN
    /\ ENABLE_IMG2IMG \in BOOLEAN
    /\ device \in {"cuda", "cpu"}
    /\ txt2img_pipeline = None
    /\ img2img_pipeline = None
    /\ phase = "startup"
    /\ gpu_lock = FALSE
    /\ holders = {}
    /\ fresh_locks = {}
    /\ loop_task = {}
    /\ in_pipeline = {}
    /\ pc = [r \in Reqs |-> "idle"]
    /\ req = [r \in Reqs |-> NoReq]
    /\ resp = [r \in Reqs |-> NoResp]
    /\ locals = [r \in Reqs |-> NoLocals]
    /\ fs = [p \in Paths |-> NoFile]
    /\ writes = [p \in Paths |-> 0]
    /\ issued = {}
    /\ call = [r \in Reqs |-> NoCall]
    /\ acquired = {}

\* ---------------------------------------------------------------- startup
\* load_models: from_pretrained either loads what is enabled or raises, and
\* then the RuntimeError keeps the application from serving.
load_models ==
    /\ phase = "startup"
    /\ \E failed_at \in {"nowhere", "base", "img2img"} :
        IF failed_at = "nowhere"
        THEN /\ txt2img_pipeline' = IF ENABLE_TXT2IMG THEN "base_pipeline" ELSE None
             /\ img2img_pipeline' = IF ENABLE_IMG2IMG THEN "img2img_pipeline" ELSE None
             /\ phase' = "serving"
        ELSE /\ IF failed_at = "base" THEN ENABLE_TXT2IMG \/ ENABLE_IMG2IMG ELSE ENABLE_IMG2IMG
             /\ txt2img_pipeline' = IF failed_at = "img2img" /\ ENABLE_TXT2IMG
                                    THEN "base_pipeline" ELSE None
             /\ img2img_pipeline' = None
             /\ phase' = "failed"
    /\ UNCHANGED <<config, locks, loop_task, in_pipeline, pc, req, resp, locals,
                   stores, issued, call>>

\* ---------------------------------------------------------------- environment
\* A client sends a request; it is in flight until its response is produced.
Arrive(r, body) ==
    /\ phase = "serving"
    /\ pc[r] = "idle"
    /\ \A q \in Reqs : q < r => pc[q] # "idle"
    /\ pc' = [pc EXCEPT ![r] = "pending"]
    /\ req' = [req EXCEPT ![r] = body]
    /\ UNCHANGED <<config, pipelines, phase, locks, loop_task, in_pipeline, resp,
                   locals, stores, issued, call>>

\* ---------------------------------------------------------------- helpers
\* Faulty variant: handlers that run side by side, as on a thread pool.
EventLoopIgnored == TRUE

\* The event loop runs one coroutine at a time: a handler starts or resumes
\* only when no coroutine occupies the loop's thread.
EventLoopIdle == loop_task = {}

\* Faulty variant: an identifier source that can repeat a value.
uuid4_reused == UUIDs

\* uuid4(): a value not drawn before (collisions of 122 random bits are left
\* out).  The tokens are interchangeable, so the next unused one is drawn.
uuid4 == {u \in UUIDs \ issued : u = UuidNames[Cardinality(issued) + 1]}

\* Faulty variant: the txt2img guard testing the img2img capability.
Txt2ImgGuardOnImg2Img == ~ENABLE_IMG2IMG \/ img2img_pipeline = None

\* `if not ENABLE_TXT2IMG or txt2img_pipeline is None` and its img2img twin.
Txt2ImgUnavailable == ~ENABLE_TXT2IMG \/ txt2img_pipeline = None
Img2ImgUnavailable == ~ENABLE_IMG2IMG \/ img2img_pipeline = None

\* os.path.exists(filepath)
Exists(path) == Resolve(path, <<>>) \in Paths /\ fs[Resolve(path, <<>>)] # NoFile
ReadFile(path) == fs[Resolve(path, <<>>)]

\* What a pipeline invocation of request r returns: n new pictures.
PipelineImages(r, n) == [i \in 1..n |-> [px |-> <<"gen", r, i>>, mode |-> "RGB"]]

\* int(time.time()), in seconds counted from the first reading a request
\* makes: the same second as the request's last reading, or the next one.
time(responses) ==
    IF responses = <<>> THEN {0}
    ELSE {responses[Len(responses)].created, responses[Len(responses)].created + 1}

\* Faulty variant: acquire and release without try/finally.
LockedAfterRaise(ok) == ~ok

\* asyncio.Lock.__aexit__: the lock is released however the body was left.
LockedAfterExit(ok) == FALSE

\* Responses.  caught tells whether the response was produced by the handler
\* (a return or an HTTPException it raised) or by the server for an exception
\* that left the handler.
Ok(body) == [status |-> 200, caught |-> TRUE, body |-> body]
HttpError(status, detail) == [status |-> status, caught |-> TRUE, body |-> [detail |-> detail]]
Uncaught == [status |-> 500, caught |-> FALSE, body |-> [text |-> "Internal Server Error"]]

Done(r, response) ==
    /\ pc' = [pc EXCEPT ![r] = "done"]
    /\ resp' = [resp EXCEPT ![r] = response]

\* Entering `async with gpu_lock:` and, inside it, the pipeline call.  A
\* coroutine that finds the lock taken suspends until it is released.
EnterGate(r, pipe, image) ==
    IF gpu_lock
    THEN /\ pc' = [pc EXCEPT ![r] = "waiting"]
         /\ UNCHANGED <<locks, loop_task, in_pipeline, call, resp>>
    ELSE /\ gpu_lock' = TRUE
         /\ holders' = holders \cup {r}
         /\ acquired' = acquired \cup {r}
         /\ in_pipeline' = in_pipeline \cup {r}
         /\ call' = [call EXCEPT ![r] = [pipe |-> pipe, image |-> image, gate |-> TRUE]]
         /\ loop_task' = loop_task \cup {r}
         /\ pc' = [pc EXCEPT ![r] = "pipeline"]
         /\ UNCHANGED <<fresh_locks, resp>>

\* The pipeline call returns (ok) or raises; `async with gpu_lock` is left.
LeaveGate(r, ok) ==
    /\ in_pipeline' = in_pipeline \ {r}
    /\ gpu_lock' = LockedAfterExit(ok)
    /\ holders' = holders \ {r}
    /\ loop_task' = loop_task \ {r}
    /\ UNCHANGED <<fresh_locks, acquired>>

\* ---------------------------------------------------------------- /txt2img
txt2img_begin(r) ==
    /\ req[r].endpoint = "txt2img"
    /\ pc[r] = "pending" \/ (pc[r] = "waiting" /\ ~gpu_lock)
    /\ EventLoopIdle
    /\ IF pc[r] = "pending" /\ Txt2ImgUnavailable
       THEN /\ Done(r, HttpError(400, "txt2img is disabled on this server."))
            /\ UNCHANGED <<locks, loop_task, in_pipeline, call>>
       ELSE EnterGate(r, "txt2img", NoImage)
    /\ UNCHANGED <<config, pipelines, phase, req, locals, stores, issued>>

txt2img_end(r) ==
    /\ req[r].endpoint = "txt2img"
    /\ pc[r] = "pipeline"
    /\ \E ok \in BOOLEAN :
        /\ LeaveGate(r, ok)
        /\ IF ok
           THEN Done(r, Ok([stream |-> EncodePNG(PipelineImages(r, 1)[1])]))
           ELSE Done(r, HttpError(500, "pipeline error"))
    /\ UNCHANGED <<config, pipelines, phase, req, locals, stores, issued, call>>

\* ---------------------------------------------------------------- /upload
upload_image_begin(r) ==
    /\ req[r].endpoint = "upload"
    /\ pc[r] = "pending"
    /\ EventLoopIdle
    /\ \E u \in uuid4 :
        /\ issued' = issued \cup {u}
        /\ locals' = [locals EXCEPT ![r].file_uuid = u]
    /\ pc' = [pc EXCEPT ![r] = "reading"]
    /\ UNCHANGED <<config, pipelines, phase, locks, loop_task, in_pipeline, req, resp,
                   stores, call>>

\* After `await file.read()`: open(filepath, "wb") and f.write either succeed,
\* and the file_id is returned, or raise, and the handler answers 500.
upload_image_write(r) ==
    /\ req[r].endpoint = "upload"
    /\ pc[r] = "reading"
    /\ EventLoopIdle
    /\ LET path == UploadPath(<<locals[r].file_uuid>>) IN
       \E written \in BOOLEAN :
        IF written
        THEN /\ fs' = [fs EXCEPT ![path] = req[r].bytes]
             /\ writes' = [writes EXCEPT ![path] = @ + 1]
             /\ Done(r, Ok([file_id |-> locals[r].file_uuid]))
        ELSE /\ Done(r, HttpError(500, "write error"))
             /\ UNCHANGED stores
    /\ UNCHANGED <<config, pipelines, phase, locks, loop_task, in_pipeline, req, locals,
                   issued, call>>

\* ---------------------------------------------------------------- /img2img
img2img_begin(r) ==
    /\ req[r].endpoint = "img2img"
    /\ pc[r] = "pending" \/ (pc[r] = "waiting" /\ ~gpu_lock)
    /\ EventLoopIdle
    /\ LET filepath == UploadPath(req[r].file_id) IN
       IF pc[r] = "waiting"
       THEN /\ EnterGate(r, "img2img", locals[r].pil_image)
            /\ UNCHANGED locals
       ELSE IF Img2ImgUnavailable
       THEN /\ Done(r, HttpError(400, "img2img is disabled on this server."))
            /\ UNCHANGED <<locks, loop_task, in_pipeline, call, locals>>
       ELSE IF ~Exists(filepath)
       THEN /\ Done(r, HttpError(404, "Uploaded file not found on disk."))
            /\ UNCHANGED <<locks, loop_task, in_pipeline, call, locals>>
       ELSE IF ~Decodable(ReadFile(filepath))
       THEN /\ Done(r, Uncaught)
            /\ UNCHANGED <<locks, loop_task, in_pipeline, call, locals>>
       ELSE LET pil_image == ConvertRGB(ImageOpen(ReadFile(filepath))) IN
            /\ locals' = [locals EXCEPT ![r].pil_image = pil_image]
            /\ EnterGate(r, "img2img", pil_image)
    /\ UNCHANGED <<config, pipelines, phase, req, stores, issued>>

img2img_end(r) ==
    /\ req[r].endpoint = "img2img"
    /\ pc[r] = "pipeline"
    /\ \E ok \in BOOLEAN :
        /\ LeaveGate(r, ok)
        /\ IF ok
           THEN Done(r, Ok([stream |-> EncodePNG(PipelineImages(r, 1)[1])]))
           ELSE Done(r, HttpError(500, "pipeline error"))
    /\ UNCHANGED <<config, pipelines, phase, req, locals, stores, issued, call>>

\* ---------------------------------------------------------------- /v1/images/generations
\* The guard, then `async with asyncio.Lock():` (a lock made for this one
\* request, which is free) and the entry of the pipeline call.
generate_images_begin(r) ==
    /\ req[r].endpoint = "generations"
    /\ pc[r] = "pending"
    /\ EventLoopIdle
    /\ IF Txt2ImgUnavailable
       THEN /\ Done(r, HttpError(503, "Text-to-Image generation is unavailable."))
            /\ UNCHANGED <<locks, loop_task, in_pipeline, call>>
       ELSE /\ fresh_locks' = fresh_locks \cup {r}
            /\ in_pipeline' = in_pipeline \cup {r}
            /\ call' = [call EXCEPT ![r] = [pipe |-> "txt2img", image |-> NoImage,
                                             gate |-> r \in holders]]
            /\ loop_task' = loop_task \cup {r}
            /\ pc' = [pc EXCEPT ![r] = "pipeline"]
            /\ UNCHANGED <<gpu_lock, holders, acquired, resp>>
    /\ UNCHANGED <<config, pipelines, phase, req, locals, stores, issued>>

\* The pipeline call returns n images or raises; then `id = str(uuid4())`.
generate_images_end(r) ==
    /\ req[r].endpoint = "generations"
    /\ pc[r] = "pipeline"
    /\ fresh_locks' = fresh_locks \ {r}
    /\ in_pipeline' = in_pipeline \ {r}
    /\ \E ok \in BOOLEAN :
        IF ok
        THEN \E u \in uuid4 :
              /\ issued' = issued \cup {u}
              /\ locals' = [locals EXCEPT ![r].images = PipelineImages(r, req[r].n),
                                          ![r].id = u]
              /\ pc' = [pc EXCEPT ![r] = "convert"]
              /\ UNCHANGED <<resp, loop_task>>
        ELSE /\ Done(r, HttpError(500, "Internal server error."))
             /\ loop_task' = loop_task \ {r}
             /\ UNCHANGED <<locals, issued>>
    /\ UNCHANGED <<config, pipelines, phase, gpu_lock, holders, acquired, req, stores,
                   call>>

\* save_image_and_get_url(image, file_id): image.save(output_dir / f"{file_id}.png")
save_image_path(image, file_id) == OutputPath(file_id)
save_image_and_get_url(image, file_id) == <<"", OUTPUT_DIR, file_id>>

\* encode_image_to_base64(image)
encode_image_to_base64(image) == <<"base64", EncodePNG(image)>>

\* One element of the list comprehension that builds `responses`; after the
\* last one the handler returns {"data": responses}.
generate_images_convert(r) ==
    /\ req[r].endpoint = "generations"
    /\ pc[r] = "convert"
    /\ \E now \in time(locals[r].responses) :
        LET id == locals[r].id
            image == locals[r].images[Len(locals[r].responses) + 1]
            last == Len(locals[r].responses) + 1 = Len(locals[r].images)
            Finish(entry) ==
                /\ locals' = [locals EXCEPT ![r].responses = Append(@, entry)]
                /\ IF last
                   THEN /\ Done(r, Ok([data |-> Append(locals[r].responses, entry)]))
                        /\ loop_task' = loop_task \ {r}
                   ELSE UNCHANGED <<pc, resp, loop_task>>
        IN
        IF req[r].response_format = "url"
        THEN \E saved \in BOOLEAN :
              IF saved
              THEN /\ fs' = [fs EXCEPT ![save_image_path(image, id)] = EncodePNG(image)]
                   /\ writes' = [writes EXCEPT ![save_image_path(image, id)] = @ + 1]
                   /\ Finish([id |-> id, object |-> "image", created |-> now,
                              url |-> save_image_and_get_url(image, id)])
              ELSE /\ Done(r, HttpError(500, "Internal server error."))
                   /\ loop_task' = loop_task \ {r}
                   /\ UNCHANGED <<locals, stores>>
        ELSE /\ Finish([id |-> id, object |-> "image", created |-> now,
                        b64_json |-> encode_image_to_base64(image)])
             /\ UNCHANGED stores
    /\ UNCHANGED <<config, pipelines, phase, locks, in_pipeline, req, issued, call>>

\* ---------------------------------------------------------------- /health
\* Faulty variant: the two capability flags reported under each other's key.
HealthBodySwapped ==
    [status |-> "ok", device |-> device, enable_txt2img |-> ENABLE_IMG2IMG,
     enable_img2img |-> ENABLE_TXT2IMG]

HealthBody ==
    [status |-> "ok", device |-> device, enable_txt2img |-> ENABLE_TXT2IMG,
     enable_img2img |-> ENABLE_IMG2IMG]

health_check(r) ==
    /\ req[r].endpoint = "health"
    /\ pc[r] = "pending"
    /\ EventLoopIdle
    /\ Done(r, Ok(HealthBody))
    /\ UNCHANGED <<config, pipelines, phase, locks, loop_task, in_pipeline, req, locals,
                   stores, issued, call>>

\* ---------------------------------------------------------------- specification
Next ==
    \/ load_models
    \/ \E r \in Reqs, body \in Requests : Arrive(r, body)
    \/ \E r \in Reqs : txt2img_begin(r)
    \/ \E r \in Reqs : txt2img_end(r)
    \/ \E r \in Reqs : upload_image_begin(r)
    \/ \E r \in Reqs : upload_image_write(r)
    \/ \E r \in Reqs : img2img_begin(r)
    \/ \E r \in Reqs : img2img_end(r)
    \/ \E r \in Reqs : generate_images_begin(r)
    \/ \E r \in Reqs : generate_images_end(r)
    \/ \E r \in Reqs : generate_images_convert(r)
    \/ \E r \in Reqs : health_check(r)

Spec == Init /\ [][Next]_vars

\* Next with the clients' requests drawn from GateRequests.
GateNext ==
    \/ load_models
    \/ \E r \in Reqs, body \in GateRequests : Arrive(r, body)
    \/ \E r \in Reqs : txt2img_begin(r)
    \/ \E r \in Reqs : txt2img_end(r)
    \/ \E r \in Reqs : upload_image_begin(r)
    \/ \E r \in Reqs : upload_image_write(r)
    \/ \E r \in Reqs : img2img_begin(r)
    \/ \E r \in Reqs : img2img_end(r)
    \/ \E r \in Reqs : generate_images_begin(r)
    \/ \E r \in Reqs : generate_images_end(r)
    \/ \E r \in Reqs : generate_images_convert(r)
    \/ \E r \in Reqs : health_check(r)

\* The scheduling the event loop and the claim's proviso give: a runnable
\* coroutine is run, and a pipeline invocation that was entered is left.
\* Clients are not obliged to send requests, nor the process to start.
LiveSpec ==
    /\ Init
    /\ [][GateNext]_vars
    /\ \A r \in Reqs :
        /\ WF_vars(txt2img_begin(r))
        /\ WF_vars(txt2img_end(r))
        /\ WF_vars(upload_image_begin(r))
        /\ WF_vars(upload_image_write(r))
        /\ WF_vars(img2img_begin(r))
        /\ WF_vars(img2img_end(r))
        /\ WF_vars(generate_images_begin(r))
        /\ WF_vars(generate_images_end(r))
        /\ WF_vars(generate_images_convert(r))
        /\ WF_vars(health_check(r))

\* ---------------------------------------------------------------- properties
Answered(r) == pc[r] = "done"
UsesTxt2Img(r) == req[r].endpoint \in {"txt2img", "generations"}
UsesImg2Img(r) == req[r].endpoint = "img2img"

\* C1: however many requests are in flight, on whatever endpoints, at most one
\* pipeline invocation is between its entry and its exit.
C1_OnePipelineAtATime == Cardinality(in_pipeline) <= 1

\* A /v1/images/generations request is inside the pipeline while another
\* inference request, whose capability is enabled, is in flight.
C1_Witness ==
    \E r, q \in Reqs :
        /\ r # q
        /\ r \in in_pipeline
        /\ req[r].endpoint = "generations"
        /\ pc[q] = "pending"
        /\ UsesTxt2Img(q)
        /\ ENABLE_TXT2IMG

\* C2: every pipeline invocation is made by a request that holds gpu_lock, and
\* gpu_lock has at most one holder.
C2_InvocationsHoldGate ==
    /\ \A r \in in_pipeline : r \in holders
    /\ \A r \in Reqs : call[r].pipe # None => call[r].gate
    /\ Cardinality(holders) <= 1

\* C3: a request to an endpoint whose capability is disabled or not loaded is
\* answered 400 (/txt2img, /img2img) or 503 (/v1/images/generations), and
\* neither acquires gpu_lock nor invokes a pipeline.
C3_DisabledRejected ==
    \A r \in Reqs :
        (\/ UsesTxt2Img(r) /\ (~ENABLE_TXT2IMG \/ txt2img_pipeline = None)
         \/ UsesImg2Img(r) /\ (~ENABLE_IMG2IMG \/ img2img_pipeline = None))
        => /\ r \notin acquired
           /\ r \notin holders
           /\ r \notin in_pipeline
           /\ call[r].pipe = None
           /\ pc[r] \in {"pending", "done"}
           /\ Answered(r) =>
                /\ resp[r].status = IF req[r].endpoint = "generations" THEN 503 ELSE 400
                /\ resp[r].caught
                /\ "detail" \in DOMAIN resp[r].body

\* Both disabled-capability answers have been given: a 503 and a 400.
C3_Witness ==
    \E r, q \in Reqs :
        /\ req[r].endpoint = "generations" /\ Answered(r) /\ resp[r].status = 503
        /\ req[q].endpoint = "img2img" /\ Answered(q) /\ resp[q].status = 400

\* The file_ids /upload has returned so far.
ReturnedFileIds ==
    {<<resp[q].body.file_id>> :
        q \in {u \in Reqs : req[u].endpoint = "upload" /\ Answered(u) /\ resp[u].status = 200}}

\* C4: with img2img enabled, a request whose file_id no /upload call has
\* returned is answered 404 and invokes no pipeline.
C4_UnknownFileId404 ==
    \A r \in Reqs :
        (/\ UsesImg2Img(r)
         /\ ENABLE_IMG2IMG /\ img2img_pipeline # None
         /\ req[r].file_id \notin ReturnedFileIds)
        => /\ call[r].pipe = None
           /\ Answered(r) => resp[r].status = 404

C6_DistinctEntries ==
    \A r \in Reqs :
        (req[r].endpoint = "generations" /\ Answered(r) /\ resp[r].status = 200)
        => LET data == resp[r].body.data IN
           /\ Len(data) = req[r].n
           /\ \A i, j \in 1..Len(data) :
                /\ i # j => data[i] # data[j]
                /\ data[i].id = data[j].id
                /\ data[i].created = data[j].created
           /\ \A i \in 1..Len(data) :
                IF req[r].response_format = "url"
                THEN "url" \in DOMAIN data[i]
                ELSE "b64_json" \in DOMAIN data[i]

\* C7: every answer is produced by the handler itself, and every error answer
\* carries a JSON detail message.
C7_FailuresCaught ==
    \A r \in Reqs :
        Answered(r)
        => /\ resp[r].caught
           /\ resp[r].status >= 400 => "detail" \in DOMAIN resp[r].body

\* C8: /health answers with the capability flags and the device, which never
\* change after the process started, and the step that answers it leaves the
\* gate, the pipeline handles, the invocations and both stores as they were.
C8_HealthReadOnly ==
    /\ [](\A r \in Reqs :
            (req[r].endpoint = "health" /\ Answered(r))
            => /\ resp[r].status = 200
               /\ resp[r].body.device = device
               /\ resp[r].body.enable_txt2img = ENABLE_TXT2IMG
               /\ resp[r].body.enable_img2img = ENABLE_IMG2IMG)
    /\ [][UNCHANGED config]_vars
    /\ [][\A r \in Reqs :
            (req[r].endpoint = "health" /\ pc[r] = "pending" /\ pc'[r] = "done")
            => UNCHANGED <<locks, in_pipeline, call, pipelines, stores>>]_vars

\* /health was answered with only one of the two capabilities enabled, and
\* another request holds the gate.
C8_Witness ==
    \E r, q \in Reqs :
        /\ req[r].endpoint = "health" /\ Answered(r)
        /\ ENABLE_TXT2IMG # ENABLE_IMG2IMG
        /\ q \in holders

\* C9: no path of the upload store or the output store is written twice.
C9_WrittenOnce == \A p \in Paths : writes[p] <= 1

\* A /txt2img or /img2img request that has passed, or will pass, the checks
\* before `async with gpu_lock` and has not entered it yet.
WaitingForGate(r) ==
    \/ pc[r] = "waiting"
    \/ /\ pc[r] = "pending"
       /\ \/ req[r].endpoint = "txt2img" /\ ENABLE_TXT2IMG /\ txt2img_pipeline # None
          \/ /\ UsesImg2Img(r)
             /\ ENABLE_IMG2IMG /\ img2img_pipeline # None
             /\ Exists(UploadPath(req[r].file_id))
             /\ Decodable(ReadFile(UploadPath(req[r].file_id)))

\* C10: gpu_lock is free whenever no request is inside a pipeline invocation,
\* and a /txt2img or /img2img request waiting for gpu_lock acquires it.
C10_GateReleased ==
    /\ [](in_pipeline = {} => ~gpu_lock /\ holders = {})
    /\ \A r \in Reqs : WaitingForGate(r) ~> (r \in holders)

\* A pipeline invocation raised under gpu_lock, and another request has
\* acquired gpu_lock after it.
C10_Witness ==
    \E r, q \in Reqs :
        /\ r # q
        /\ r \in acquired /\ Answered(r) /\ resp[r].status = 500
        /\ q \in holders

====
